---- MODULE Spec2Model ----
(***************************************************************************)
(* azure-devops-exporter, main.go: process startup (argument validation,   *)
(* API client set-up, collector registration, HTTP listener) as a state    *)
(* machine, plus the API client's request slots.                           *)
(*                                                                         *)
(* Strings are sequences of characters.  Durations and limits are small    *)
(* integers.  A Go pointer is a record [kind, val]: kind "nil", kind "own" *)
(* (a cell of its own holding val) or kind "time" (the address of          *)
(* opts.Scrape.Time).                                                      *)
(***************************************************************************)
EXTENDS Integers, Sequences, FiniteSets, TLC

(* ------------------------------ bounds -------------------------------- *)

\* largest duration tried for a scrape interval (the smallest is -1)
MaxInterval == 1
\* how many of the per-collector interval options are given explicitly
MaxExplicit == 2
\* how many query filters are given
MaxQueries == 2
\* largest per-resource result-count limit tried (the smallest is 1)
MaxLimit == 2
\* largest request concurrency limit tried (the smallest is 0)
MaxConcurrency == 2
\* the retry count of the runs that differ in the concurrency limit
MaxRetries == 3
\* request slots of the API client's callers
MaxRequests == 3

(* ------------------------------ strings ------------------------------- *)

EmptyStr == <<>>

\* unicode white space as strings.TrimSpace sees it, over the characters used here
Whitespace == {" ", "\n", "\t", "\r"}

RECURSIVE TrimLeft(_)
TrimLeft(s) ==
    IF Len(s) > 0 /\ Head(s) \in Whitespace THEN TrimLeft(Tail(s)) ELSE s

RECURSIVE TrimRight(_)
TrimRight(s) ==
    IF Len(s) > 0 /\ s[Len(s)] \in Whitespace
    THEN TrimRight(SubSeq(s, 1, Len(s) - 1))
    ELSE s

\* strings.TrimSpace
TrimSpace(s) == TrimRight(TrimLeft(s))

\* strings.Count(s, sep) for a one-character sep
StringsCount(s, sep) == Cardinality({i \in 1..Len(s) : s[i] = sep})

(* ------------------------------ pointers ------------------------------ *)

Nil == [kind |-> "nil", val |-> 0]
Own(v) == [kind |-> "own", val |-> v]
AddrOfScrapeTime == [kind |-> "time", val |-> 0]

\* *string
NilStr == [set |-> FALSE, val |-> EmptyStr]
StrPtr(s) == [set |-> TRUE, val |-> s]

\* []string
NilList == [set |-> FALSE, val |-> <<>>]
List(l) == [set |-> TRUE, val |-> l]

(* --------------------------- program constants ------------------------ *)

cacheTag == <<"v", "1">>

\* the per-collector interval options of opts.Scrape
ScrapeFields ==
    {"TimeProjects", "TimeRepository", "TimePullRequest", "TimeBuild",
     "TimeRelease", "TimeDeployment", "TimeStats", "TimeResourceUsage",
     "TimeQuery", "TimeAgentPools"}

\* the result-count limits of opts.Limit
LimitFields ==
    {"Project", "BuildsPerProject", "BuildsPerDefinition",
     "ReleasesPerDefinition", "DeploymentPerDefinition",
     "ReleaseDefinitionsPerProject", "ReleasesPerProject"}

\* the startCollector calls of initMetricCollector, in order
CollectorCalls ==
    << [name |-> "Project",       cacheFileName |-> "project.json",       time |-> "TimeProjects"],
       [name |-> "AgentPool",     cacheFileName |-> "agentpool.json",     time |-> "TimeAgentPools"],
       [name |-> "LatestBuild",   cacheFileName |-> "latestbuild.json",   time |-> "TimeBuild"],
       [name |-> "Repository",    cacheFileName |-> "latestbuild.json",   time |-> "TimeRepository"],
       [name |-> "PullRequest",   cacheFileName |-> "pullrequest.json",   time |-> "TimePullRequest"],
       [name |-> "Build",         cacheFileName |-> "build.json",         time |-> "TimeBuild"],
       [name |-> "Release",       cacheFileName |-> "release.json",       time |-> "TimeRelease"],
       [name |-> "Deployment",    cacheFileName |-> "deployment.json",    time |-> "TimeDeployment"],
       [name |-> "Stats",         cacheFileName |-> "stats.json",         time |-> "TimeStats"],
       [name |-> "ResourceUsage", cacheFileName |-> "resourceusage.json", time |-> "TimeResourceUsage"],
       [name |-> "Query",         cacheFileName |-> "query.json",         time |-> "TimeQuery"] >>

NumCollectors == Len(CollectorCalls)

CollectorNames == {CollectorCalls[i].name : i \in 1..NumCollectors}

CallOf(n) == CHOOSE i \in 1..NumCollectors : CollectorCalls[i].name = n

(* ------------------------------ inputs -------------------------------- *)

IntervalVals == (0 - 1)..MaxInterval

\* a query filter is a string over "U" (a well-formed UUID), "x" (any other
\* text without '@') and "@"
UuidPair == <<"U", "@", "U">>

QuerySamples ==
    { UuidPair, <<"x", "@", "x">>, <<"U">>, <<"U", "@", "U", "@", "U">>,
      <<"@">>, EmptyStr }

RECURSIVE SeqsUpTo(_, _)
SeqsUpTo(S, n) ==
    IF n = 0 THEN {<<>>}
    ELSE LET shorter == SeqsUpTo(S, n - 1)
         IN  shorter \cup {Append(l, x) : l \in shorter, x \in S}

QueryLists == {NilList} \cup {List(l) : l \in SeqsUpTo(QuerySamples, MaxQueries)}

TokenSamples == {EmptyStr, <<"t">>}

FileSamples ==
    { [readable |-> FALSE, contents |-> EmptyStr],
      [readable |-> TRUE,  contents |-> EmptyStr],
      [readable |-> TRUE,  contents |-> <<" ", "\n">>],
      [readable |-> TRUE,  contents |-> <<"f", "\n">>],
      [readable |-> TRUE,  contents |-> <<" ", "f", " ", "f", "\n">>] }

IdSamples == {EmptyStr, <<"i">>}

DefaultEnv ==
    [parse |-> "ok", tokenFile |-> [readable |-> FALSE, contents |-> EmptyStr],
     deprecatedEnv |-> FALSE]

DefaultOpts ==
    [ AzureDevops |->
        [ Url |-> NilStr, AccessToken |-> <<"t">>, AccessTokenFile |-> NilStr,
          Organisation |-> <<"o">>, ApiVersion |-> <<"5">>,
          QueriesWithProjects |-> NilList ],
      Azure |-> [TenantId |-> EmptyStr, ClientId |-> EmptyStr, ClientSecret |-> EmptyStr],
      Scrape |-> [Time |-> 1, ptr |-> [f \in ScrapeFields |-> Nil]],
      Stats |-> [SummaryMaxAge |-> Nil],
      Request |-> [ConcurrencyLimit |-> 1, Retries |-> 1],
      Limit |-> [f \in LimitFields |-> 1],
      Cache |-> [Path |-> <<"c">>] ]

\* no cache file of an earlier run on disk
NoDisk ==
    [present |-> FALSE, AzureDevops |-> DefaultOpts.AzureDevops,
     Limit |-> DefaultOpts.Limit]

\* command lines that differ in credentials and in the access-token file
ArgsCredentials ==
    { [DefaultOpts EXCEPT !.AzureDevops.AccessToken = tok,
                          !.AzureDevops.AccessTokenFile = tf,
                          !.Azure = [TenantId |-> t, ClientId |-> c, ClientSecret |-> s]] :
        tok \in TokenSamples, tf \in {NilStr, StrPtr(EmptyStr), StrPtr(<<"p">>)},
        t \in IdSamples, c \in IdSamples, s \in IdSamples }

EnvSamples ==
    [parse : {"ok", "help", "error"}, tokenFile : FileSamples, deprecatedEnv : BOOLEAN]

\* command lines that differ in the query filters
ArgsQueries ==
    { [DefaultOpts EXCEPT !.AzureDevops.QueriesWithProjects = q,
                          !.AzureDevops.AccessToken = tok] :
        q \in QueryLists, tok \in TokenSamples }

\* the per-collector interval options, at most MaxExplicit of them given
ScrapePtrs ==
    UNION { { [f \in ScrapeFields |-> IF f \in S THEN Own(g[f]) ELSE Nil] :
                g \in [S -> IntervalVals] } :
            S \in {T \in SUBSET ScrapeFields : Cardinality(T) <= MaxExplicit} }

\* command lines that differ in the scrape intervals
ArgsIntervals ==
    { [DefaultOpts EXCEPT !.Scrape = [Time |-> t, ptr |-> p]] :
        t \in IntervalVals, p \in ScrapePtrs }

\* command lines that differ from the default in one field of opts.AzureDevops,
\* in one result-count limit or in having no cache directory
ArgsFingerprint ==
    {DefaultOpts, [DefaultOpts EXCEPT !.Cache.Path = EmptyStr]}
    \cup { [DefaultOpts EXCEPT !.AzureDevops.Organisation = <<"o", "2">>],
           [DefaultOpts EXCEPT !.AzureDevops.ApiVersion = <<"6">>],
           [DefaultOpts EXCEPT !.AzureDevops.QueriesWithProjects = List(<<UuidPair>>)] }
    \cup { [DefaultOpts EXCEPT !.Limit[f] = l] : f \in LimitFields, l \in 2..MaxLimit }

\* command lines that differ in the concurrency limit; two collectors enabled
ArgsRequest ==
    { [DefaultOpts EXCEPT
         !.Request = [ConcurrencyLimit |-> n, Retries |-> MaxRetries],
         !.Scrape = [Time |-> 0,
                     ptr |-> [f \in ScrapeFields |->
                                IF f \in {"TimeProjects", "TimeAgentPools"}
                                THEN Own(1) ELSE Nil]]] :
        n \in 0..MaxConcurrency }

(* ------------------------------- state -------------------------------- *)

VARIABLES
    args,        \* the command line and environment as given (never changes)
    opts,        \* config.Opts, as the program holds it
    env,         \* outcome of argparser.Parse, the access-token file, the deprecated variable
    disk,        \* the cache directory as an earlier run left it
    pc,          \* position of main
    exitAt,      \* the function that ended the process ("none" while it runs)
    exitCode,    \* process exit status (-1 while it runs)
    printed,     \* the query filters a validation message was printed for
    osenv,       \* AZURE_TENANT_ID, AZURE_CLIENT_ID, AZURE_CLIENT_SECRET
    client,      \* AzureDevopsClient
    sdUpdated,   \* AzureDevopsServiceDiscovery.Update() was called
    idx,         \* the next startCollector call of initMetricCollector
    collectors,  \* per collector name: what startCollector did
    listener,    \* "none", "listening" or "failed"
    requests     \* the request slots of the API client's callers

vars ==
    << args, opts, env, disk, pc, exitAt, exitCode, printed, osenv, client,
       sdUpdated, idx, collectors, listener, requests >>

NoClient ==
    [ created |-> FALSE, HostUrl |-> NilStr, organization |-> EmptyStr,
      authMode |-> "none", accessToken |-> EmptyStr, azAuthCalls |-> 0,
      azAuthErr |-> FALSE, apiVersion |-> EmptyStr, concurrency |-> 0,
      retries |-> 0, userAgent |-> FALSE,
      limits |-> [f \in LimitFields |-> 0] ]

NoCachePath == [set |-> FALSE, dir |-> EmptyStr, file |-> ""]

NoCollector ==
    [ created |-> FALSE, scrapeTime |-> 0, cacheFile |-> "",
      cachePath |-> NoCachePath, cacheTag |-> <<>>, started |-> FALSE,
      startErr |-> FALSE, disabled |-> FALSE ]

NoRequest == [state |-> "idle", owner |-> "none"]

InitWith(argSet, envSet, diskSet) ==
    /\ args \in argSet
    /\ opts = args
    /\ env \in envSet
    /\ disk \in diskSet
    /\ pc = "initArgparser"
    /\ exitAt = "none"
    /\ exitCode = 0 - 1
    /\ printed = <<>>
    /\ osenv = [AZURE_TENANT_ID |-> EmptyStr, AZURE_CLIENT_ID |-> EmptyStr,
                AZURE_CLIENT_SECRET |-> EmptyStr]
    /\ client = NoClient
    /\ sdUpdated = FALSE
    /\ idx = 1
    /\ collectors = [n \in CollectorNames |-> NoCollector]
    /\ listener = "none"
    /\ requests = [r \in 1..MaxRequests |-> NoRequest]

\* the cache directory after a run under command line a
DiskOf(a) == [present |-> TRUE, AzureDevops |-> a.AzureDevops, Limit |-> a.Limit]

InitRequest == InitWith(ArgsRequest, {DefaultEnv}, {NoDisk})

Init ==
    \/ InitWith(ArgsCredentials, EnvSamples, {NoDisk})
    \/ InitWith(ArgsQueries, {e \in EnvSamples : e.tokenFile = DefaultEnv.tokenFile}, {NoDisk})
    \/ InitWith(ArgsIntervals, {DefaultEnv}, {NoDisk})
    \/ InitWith(ArgsFingerprint, {DefaultEnv}, {DiskOf(a) : a \in ArgsFingerprint})
    \/ InitRequest

(* --------------------------- initArgparser ---------------------------- *)

\* argparser.Parse returned an error
ParseFailed(e) == e.parse # "ok"

\* os.Exit status after a parse error
ParseExitCode(e) == IF e.parse = "help" THEN 0 ELSE 1

\* the access token is to be read from a file
HasAccessTokenFile(o) ==
    o.AzureDevops.AccessTokenFile.set /\ Len(o.AzureDevops.AccessTokenFile.val) > 0

\* load accesstoken from file: the options afterwards, or a fatal error
LoadAccessToken(o, e) ==
    IF HasAccessTokenFile(o)
    THEN IF e.tokenFile.readable
         THEN [fatal |-> FALSE,
               opts |-> [o EXCEPT !.AzureDevops.AccessToken = TrimSpace(e.tokenFile.contents)]]
         ELSE [fatal |-> TRUE, opts |-> o]
    ELSE [fatal |-> FALSE, opts |-> o]

\* faulty variant: fatal only when tenant id and client id are both missing
MissingCredentialsBothIds(o) ==
    Len(o.AzureDevops.AccessToken) = 0
        /\ (Len(o.Azure.TenantId) = 0 /\ Len(o.Azure.ClientId) = 0)

MissingCredentials(o) ==
    Len(o.AzureDevops.AccessToken) = 0
        /\ (Len(o.Azure.TenantId) = 0 \/ Len(o.Azure.ClientId) = 0)

\* faulty variant: only a missing '@' is malformed
QueryMalformedNoAt(query) == StringsCount(query, "@") = 0

QueryMalformed(query) == StringsCount(query, "@") # 1

\* the queries a message is printed for, in order
MalformedQueries(o) ==
    IF o.AzureDevops.QueriesWithProjects.set
    THEN SelectSeq(o.AzureDevops.QueriesWithProjects.val, QueryMalformed)
    ELSE <<>>

\* faulty variant: the default replaces an interval that was given
ScrapeTimeAlwaysDefault(p) == AddrOfScrapeTime

\* use default scrape time if null
ScrapeTimeOrDefault(p) == IF p = Nil THEN AddrOfScrapeTime ELSE p

DefaultScrapeTimes(o) ==
    LET ptr == [f \in ScrapeFields |-> ScrapeTimeOrDefault(o.Scrape.ptr[f])]
    IN  [o EXCEPT !.Scrape.ptr = ptr,
                  !.Stats.SummaryMaxAge =
                      IF o.Stats.SummaryMaxAge = Nil THEN ptr["TimeStats"]
                      ELSE o.Stats.SummaryMaxAge]

\* *p for a *time.Duration of opts
Deref(o, p) == IF p.kind = "time" THEN o.Scrape.Time ELSE p.val

Running(o) == [opts |-> o, printed |-> <<>>, exit |-> FALSE, code |-> 0 - 1]
Exited(o, out, code) == [opts |-> o, printed |-> out, exit |-> TRUE, code |-> code]

\* the whole of initArgparser
ArgparserOutcome(o, e) ==
    IF ParseFailed(e) THEN Exited(o, <<>>, ParseExitCode(e))
    ELSE LET lt == LoadAccessToken(o, e) IN
         IF lt.fatal THEN Exited(lt.opts, <<>>, 1)
         ELSE IF MissingCredentials(lt.opts) THEN Exited(lt.opts, <<>>, 1)
         ELSE LET bad == MalformedQueries(lt.opts) IN
              IF Len(bad) > 0 THEN Exited(lt.opts, bad, 1)
              ELSE LET d == DefaultScrapeTimes(lt.opts) IN
                   IF e.deprecatedEnv THEN Exited(d, <<>>, 1) ELSE Running(d)

initArgparser ==
    /\ pc = "initArgparser"
    /\ LET r == ArgparserOutcome(opts, env) IN
         /\ opts' = r.opts
         /\ printed' = r.printed
         /\ pc' = IF r.exit THEN "exited" ELSE "initAzureDevOpsConnection"
         /\ exitAt' = IF r.exit THEN "initArgparser" ELSE exitAt
         /\ exitCode' = r.code
    /\ UNCHANGED << args, env, disk, osenv, client, sdUpdated, idx, collectors,
                    listener, requests >>

(* --------------------- initAzureDevOpsConnection ---------------------- *)

\* os.Setenv for the non-empty service-principal values
PopulateAzureEnv(o, e) ==
    [ AZURE_TENANT_ID |-> IF o.Azure.TenantId # EmptyStr THEN o.Azure.TenantId
                          ELSE e.AZURE_TENANT_ID,
      AZURE_CLIENT_ID |-> IF o.Azure.ClientId # EmptyStr THEN o.Azure.ClientId
                          ELSE e.AZURE_CLIENT_ID,
      AZURE_CLIENT_SECRET |-> IF o.Azure.ClientSecret # EmptyStr THEN o.Azure.ClientSecret
                              ELSE e.AZURE_CLIENT_SECRET ]

\* faulty variant: service-principal credentials win over a token
UseTokenAuthUnlessClientId(o) ==
    o.AzureDevops.AccessToken # EmptyStr /\ o.Azure.ClientId = EmptyStr

\* faulty variant: the retry count is handed to SetConcurrency
ConfiguredConcurrencyFromRetries(o) == o.Request.Retries

\* the static-token mode is taken
UseTokenAuth(o) == o.AzureDevops.AccessToken # EmptyStr

\* the value handed to SetConcurrency
ConfiguredConcurrency(o) == o.Request.ConcurrencyLimit

\* the client up to the choice of the auth mode
ClientWithAuth(o, azErr) ==
    LET c0 == [NoClient EXCEPT !.created = TRUE,
                               !.HostUrl = o.AzureDevops.Url,
                               !.organization = o.AzureDevops.Organisation]
    IN  IF UseTokenAuth(o)
        THEN [c0 EXCEPT !.authMode = "token", !.accessToken = o.AzureDevops.AccessToken]
        ELSE [c0 EXCEPT !.authMode = "azauth", !.azAuthCalls = c0.azAuthCalls + 1,
                        !.azAuthErr = azErr]

\* the settings made once the auth mode is set up
ClientConfigured(c, o) ==
    [c EXCEPT !.apiVersion = o.AzureDevops.ApiVersion,
              !.concurrency = ConfiguredConcurrency(o),
              !.retries = o.Request.Retries,
              !.userAgent = TRUE,
              !.limits = o.Limit]

\* azErr: UseAzAuth returned an error (decided outside the program)
initAzureDevOpsConnection ==
    /\ pc = "initAzureDevOpsConnection"
    /\ \E azErr \in BOOLEAN :
         LET c == ClientWithAuth(opts, azErr) IN
           /\ client' = IF c.azAuthErr THEN c ELSE ClientConfigured(c, opts)
           /\ pc' = IF c.azAuthErr THEN "exited" ELSE "ServiceDiscovery"
           /\ exitAt' = IF c.azAuthErr THEN "initAzureDevOpsConnection" ELSE exitAt
           /\ exitCode' = IF c.azAuthErr THEN 1 ELSE exitCode
    /\ osenv' = PopulateAzureEnv(opts, osenv)
    /\ UNCHANGED << args, opts, env, disk, printed, sdUpdated, idx, collectors,
                    listener, requests >>

\* NewAzureDevopsServiceDiscovery and its Update, the first use of the remote API
ServiceDiscoveryUpdate ==
    /\ pc = "ServiceDiscovery"
    /\ sdUpdated' = TRUE
    /\ pc' = "initMetricCollector"
    /\ UNCHANGED << args, opts, env, disk, exitAt, exitCode, printed, osenv,
                    client, idx, collectors, listener, requests >>

(* ------------------------ initMetricCollector ------------------------- *)

\* faulty variant: a zero interval starts the collector
CollectorEnabledAtZero(d) == d >= 0

\* timeDuration.Seconds() > 0
CollectorEnabled(d) == d > 0

\* the interval a collector is started with
IntervalOf(o, n) == Deref(o, o.Scrape.ptr[CollectorCalls[CallOf(n)].time])

\* opts.GetCachePath: a file of the cache directory, nil without one
GetCachePath(o, name) ==
    IF o.Cache.Path # EmptyStr
    THEN [set |-> TRUE, dir |-> o.Cache.Path, file |-> name]
    ELSE NoCachePath

\* collector.BuildCacheTag(cacheTag, opts.AzureDevops): a digest of its
\* arguments, kept as the arguments themselves
CacheFingerprint(o) == <<cacheTag, o.AzureDevops>>

\* faulty variant: the error of c.Start() is dropped
StartErrorIgnored(err) == FALSE

\* a failed c.Start() ends the process
StartErrorFatal(err) == err

\* one call of the startCollector closure
StartedCollector(o, call, startErr) ==
    IF CollectorEnabled(Deref(o, o.Scrape.ptr[call.time]))
    THEN [ created |-> TRUE,
           scrapeTime |-> Deref(o, o.Scrape.ptr[call.time]),
           cacheFile |-> call.cacheFileName,
           cachePath |-> GetCachePath(o, call.cacheFileName),
           cacheTag |-> CacheFingerprint(o),
           started |-> ~startErr,
           startErr |-> startErr,
           disabled |-> FALSE ]
    ELSE [NoCollector EXCEPT !.disabled = TRUE]

\* startErr: c.Start() returned an error (decided by the collector runtime)
startCollector ==
    /\ pc = "initMetricCollector"
    /\ idx <= NumCollectors
    /\ \E startErr \in BOOLEAN :
         LET call == CollectorCalls[idx]
             c == StartedCollector(opts, call, startErr)
             fatal == StartErrorFatal(c.startErr)
         IN  /\ collectors' = [collectors EXCEPT ![call.name] = c]
             /\ pc' = IF fatal THEN "exited"
                      ELSE IF idx = NumCollectors THEN "startHttpServer"
                      ELSE pc
             /\ exitAt' = IF fatal THEN "initMetricCollector" ELSE exitAt
             /\ exitCode' = IF fatal THEN 1 ELSE exitCode
    /\ idx' = idx + 1
    /\ UNCHANGED << args, opts, env, disk, printed, osenv, client, sdUpdated,
                    listener, requests >>

(* --------------------------- startHttpServer -------------------------- *)

\* listenErr: ListenAndServe returned at once; otherwise it serves for good
startHttpServer ==
    /\ pc = "startHttpServer"
    /\ \E listenErr \in BOOLEAN :
         /\ listener' = IF listenErr THEN "failed" ELSE "listening"
         /\ pc' = IF listenErr THEN "exited" ELSE "serving"
         /\ exitAt' = IF listenErr THEN "startHttpServer" ELSE exitAt
         /\ exitCode' = IF listenErr THEN 1 ELSE exitCode
    /\ UNCHANGED << args, opts, env, disk, printed, osenv, client, sdUpdated,
                    idx, collectors, requests >>

Next ==
    \/ initArgparser
    \/ initAzureDevOpsConnection
    \/ ServiceDiscoveryUpdate
    \/ startCollector
    \/ startHttpServer

Spec == Init /\ [][Next]_vars

(* ----------------------- the API client's requests -------------------- *)

\* requests holding a slot of the client's semaphore
InFlight == Cardinality({r \in 1..MaxRequests : requests[r].state = "running"})

\* a slot of the semaphore SetConcurrency made is free
SlotFree(c) == InFlight < c.concurrency

\* a tick of started collector n asks the client for a request
IssueRequest(r, n) ==
    /\ pc # "exited"
    /\ client.created
    /\ collectors[n].started
    /\ requests[r].state = "idle"
    /\ requests' = [requests EXCEPT ![r] = [state |-> "waiting", owner |-> n]]
    /\ UNCHANGED << args, opts, env, disk, pc, exitAt, exitCode, printed, osenv,
                    client, sdUpdated, idx, collectors, listener >>

\* the caller takes a slot, blocking while none is free
AcquireSlot(r) ==
    /\ pc # "exited"
    /\ requests[r].state = "waiting"
    /\ SlotFree(client)
    /\ requests' = [requests EXCEPT ![r].state = "running"]
    /\ UNCHANGED << args, opts, env, disk, pc, exitAt, exitCode, printed, osenv,
                    client, sdUpdated, idx, collectors, listener >>

\* the request ends (response, error or timeout) and gives its slot back
ReleaseSlot(r) ==
    /\ pc # "exited"
    /\ requests[r].state = "running"
    /\ requests' = [requests EXCEPT ![r] = NoRequest]
    /\ UNCHANGED << args, opts, env, disk, pc, exitAt, exitCode, printed, osenv,
                    client, sdUpdated, idx, collectors, listener >>

NextRequest ==
    \/ Next
    \/ \E r \in 1..MaxRequests, n \in CollectorNames : IssueRequest(r, n)
    \/ \E r \in 1..MaxRequests : AcquireSlot(r)
    \/ \E r \in 1..MaxRequests : ReleaseSlot(r)

\* main runs on; a request in flight ends; a blocked caller is served when
\* slots keep coming free
RequestFairness ==
    /\ WF_vars(Next)
    /\ \A r \in 1..MaxRequests : WF_vars(ReleaseSlot(r))
    /\ \A r \in 1..MaxRequests : SF_vars(AcquireSlot(r))

RequestSpec == InitRequest /\ [][NextRequest]_vars /\ RequestFairness

(* ------------------------------ properties ---------------------------- *)

\* startCollector has been called for collector n
Processed(n) == pc # "initArgparser" /\ CallOf(n) < idx

\* initArgparser returned
ArgparserCompleted == pc # "initArgparser" /\ exitAt # "initArgparser"

\* the interval option of collector n was given, and is positive
ExplicitPositive(n) ==
    LET p == args.Scrape.ptr[CollectorCalls[CallOf(n)].time]
    IN  p # Nil /\ p.val > 0

\* startCollector left something of collector n behind: the object, a scrape
\* time, a cache setting or a Start
Touched(n) ==
    LET c == collectors[n]
    IN  \/ c.created
        \/ c.scrapeTime # 0
        \/ c.cacheFile # ""
        \/ c.cachePath.set
        \/ c.cacheTag # <<>>
        \/ c.started
        \/ c.startErr

\* C1: a collector whose interval is <= 0 gets no collector object, no scrape
\* time, no cache path or tag and no Start, only the "collector disabled" log
\* entry; only a collector whose interval is > 0 reaches
\* SetScapeTime/SetCache/Start.
C1_DisabledCollectorsUntouched ==
    \A n \in CollectorNames :
        /\ Touched(n) => (Processed(n) /\ IntervalOf(opts, n) > 0)
        /\ collectors[n].disabled => (Processed(n) /\ IntervalOf(opts, n) <= 0)
        /\ (Processed(n) /\ IntervalOf(opts, n) <= 0)
               => collectors[n] = [NoCollector EXCEPT !.disabled = TRUE]
        /\ (Processed(n) /\ IntervalOf(opts, n) > 0)
               => (collectors[n].created /\ collectors[n].scrapeTime = IntervalOf(opts, n)
                   /\ collectors[n].cacheTag # <<>>)

\* C1 witness: every collector was handled, one with an interval <= 0 was only
\* logged as disabled and another one was started
C1_Witness ==
    /\ idx > NumCollectors
    /\ \E n \in CollectorNames :
           IntervalOf(opts, n) <= 0 /\ collectors[n].disabled /\ ~Touched(n)
    /\ \E n \in CollectorNames : collectors[n].started

\* C6: the HTTP listener is started only after the arguments were accepted,
\* the authentication was set up and every enabled collector was started;
\* when UseAzAuth or a collector's Start fails the process ends and the
\* listener is never started.
C6_ServeOnlyAfterStartup ==
    /\ listener # "none" =>
          /\ env.parse = "ok"
          /\ ~(HasAccessTokenFile(args) /\ ~env.tokenFile.readable)
          /\ ~(opts.AzureDevops.AccessToken = EmptyStr
                 /\ (opts.Azure.TenantId = EmptyStr \/ opts.Azure.ClientId = EmptyStr))
          /\ printed = <<>>
          /\ ~env.deprecatedEnv
          /\ client.created /\ client.authMode # "none" /\ ~client.azAuthErr
          /\ sdUpdated
          /\ \A n \in CollectorNames :
                /\ ~collectors[n].startErr
                /\ IntervalOf(opts, n) > 0 => collectors[n].started
                /\ IntervalOf(opts, n) <= 0 => collectors[n].disabled
    /\ (client.azAuthErr \/ \E n \in CollectorNames : collectors[n].startErr) =>
          /\ pc = "exited"
          /\ exitCode = 1
          /\ listener = "none"

\* C6 witness: the listener serves after a service-principal login and the
\* start of all eleven collectors
C6_Witness ==
    /\ listener = "listening"
    /\ client.authMode = "azauth"
    /\ \A n \in CollectorNames : collectors[n].started

\* C10: once initArgparser returned every per-collector interval is defined,
\* an interval that was not given equals the global scrape time and one that
\* was given keeps its value; so with a global scrape time <= 0 exactly the
\* collectors without a positive interval of their own are disabled, and Build
\* and LatestBuild are enabled or disabled together.
C10_IntervalsDefaulted ==
    /\ ArgparserCompleted =>
          /\ opts.Scrape.Time = args.Scrape.Time
          /\ \A f \in ScrapeFields :
                /\ opts.Scrape.ptr[f] # Nil
                /\ Deref(opts, opts.Scrape.ptr[f]) =
                      IF args.Scrape.ptr[f] = Nil THEN args.Scrape.Time
                      ELSE args.Scrape.ptr[f].val
          /\ opts.Stats.SummaryMaxAge # Nil
    /\ \A n \in CollectorNames :
          (Processed(n) /\ args.Scrape.Time <= 0) =>
              (collectors[n].disabled <=> ~ExplicitPositive(n))
    /\ Processed("Build") =>
          /\ collectors["Build"].created <=> collectors["LatestBuild"].created
          /\ collectors["Build"].disabled <=> collectors["LatestBuild"].disabled

\* C10 witness: the global scrape time is <= 0, the build interval alone is
\* given and positive, and every collector was handled
C10_Witness ==
    /\ idx > NumCollectors
    /\ args.Scrape.Time <= 0
    /\ \A n \in CollectorNames :
          ExplicitPositive(n) <=> n \in {"Build", "LatestBuild"}
    /\ collectors["Build"].started /\ collectors["LatestBuild"].started
    /\ collectors["Project"].disabled

\* nothing of the remote API was set up: no client, no service discovery
\* update, no collector, no listener
NothingStarted ==
    /\ ~client.created
    /\ ~sdUpdated
    /\ \A n \in CollectorNames : ~Touched(n)
    /\ listener = "none"

\* the access token after the file, when one is named, replaced the given one
ResolvedToken ==
    IF HasAccessTokenFile(args) THEN TrimSpace(env.tokenFile.contents)
    ELSE args.AzureDevops.AccessToken

\* C2 as claimed: any two distinct enabled collectors have different cache
\* file identifiers (and so different cache files).
C2_DistinctCacheFiles ==
    \A n, m \in CollectorNames :
        (n # m /\ collectors[n].created /\ collectors[m].created) =>
            /\ collectors[n].cacheFile # collectors[m].cacheFile
            /\ (collectors[n].cachePath.set /\ collectors[m].cachePath.set) =>
                   collectors[n].cachePath # collectors[m].cachePath

\* the configuration a collector's output depends on: organization, API
\* version, filters and the result-count limits
OutputConfig(o) ==
    << o.AzureDevops.Organisation, o.AzureDevops.ApiVersion,
       o.AzureDevops.QueriesWithProjects, o.Limit >>

\* C3 as claimed: when the earlier run's configuration differs from this
\* run's in a field that affects a collector's output, the fingerprint handed
\* to SetCache differs from the one the earlier run's cache entries carry.
C3_FingerprintCoversConfig ==
    \A n \in CollectorNames :
        (collectors[n].created /\ disk.present /\ OutputConfig(disk) # OutputConfig(opts))
            => collectors[n].cacheTag # CacheFingerprint(disk)

\* C4 as claimed: with an empty token and tenant id, client id or client
\* secret missing, the process ends before the API client is created.
C4_FatalWithoutFullCredentials ==
    ( /\ pc # "initArgparser"
      /\ opts.AzureDevops.AccessToken = EmptyStr
      /\ \/ opts.Azure.TenantId = EmptyStr
         \/ opts.Azure.ClientId = EmptyStr
         \/ opts.Azure.ClientSecret = EmptyStr )
    => NothingStarted

\* C4 amended: with an empty token and tenant id or client id missing, the
\* process ends in initArgparser, before the API client is created, a
\* collector is registered or the HTTP server is started.
C4_FatalWithoutTokenOrIds ==
    ( /\ pc # "initArgparser"
      /\ opts.AzureDevops.AccessToken = EmptyStr
      /\ \/ opts.Azure.TenantId = EmptyStr
         \/ opts.Azure.ClientId = EmptyStr )
    => (pc = "exited" /\ exitAt = "initArgparser" /\ exitCode # 0 - 1 /\ NothingStarted)

\* C4 witness: the arguments parsed, the token file held only white space,
\* tenant id and secret were given but no client id, and the process ended
\* with status 1
C4_Witness ==
    /\ pc = "exited" /\ exitAt = "initArgparser" /\ exitCode = 1
    /\ env.parse = "ok"
    /\ HasAccessTokenFile(args) /\ env.tokenFile.readable
    /\ args.AzureDevops.AccessToken # EmptyStr
    /\ opts.AzureDevops.AccessToken = EmptyStr
    /\ opts.Azure.TenantId # EmptyStr
    /\ opts.Azure.ClientSecret # EmptyStr
    /\ opts.Azure.ClientId = EmptyStr

\* the query filters as given
GivenQueries == args.AzureDevops.QueriesWithProjects.val

NotUuidPair(q) == q # UuidPair

NotOneAt(q) == StringsCount(q, "@") # 1

\* the checks of initArgparser that come before the query filters passed
ReachedQueryCheck ==
    /\ env.parse = "ok"
    /\ ~(HasAccessTokenFile(args) /\ ~env.tokenFile.readable)
    /\ ~(opts.AzureDevops.AccessToken = EmptyStr
           /\ (opts.Azure.TenantId = EmptyStr \/ opts.Azure.ClientId = EmptyStr))

\* C5 as claimed, for a run that reaches the check of the query filters: when
\* a filter is not of the form <uuid>@<uuid>, a message is printed for each
\* such filter and the process exits with status 1 before the remote API is
\* used; when all filters are well-formed the check does not end the process.
C5_MalformedQueryExits ==
    (pc # "initArgparser" /\ ReachedQueryCheck) =>
        /\ SelectSeq(GivenQueries, NotUuidPair) # <<>> =>
              /\ pc = "exited" /\ exitAt = "initArgparser" /\ exitCode = 1
              /\ printed = SelectSeq(GivenQueries, NotUuidPair)
              /\ NothingStarted
        /\ SelectSeq(GivenQueries, NotUuidPair) = <<>> =>
              /\ printed = <<>>
              /\ ~env.deprecatedEnv => exitAt # "initArgparser"

\* C5 amended, for a run that reaches the check of the query filters: when a
\* filter does not hold exactly one '@', a message is printed for each such
\* filter and the process exits with status 1 before the remote API is used;
\* when all filters hold exactly one '@' (as every <uuid>@<uuid> does) the
\* check prints nothing and does not end the process.  No message is printed
\* in a run that does not reach the check.
C5_QueryWithoutOneAtExits ==
    /\ (pc # "initArgparser" /\ ReachedQueryCheck) =>
          /\ SelectSeq(GivenQueries, NotOneAt) # <<>> =>
                /\ pc = "exited" /\ exitAt = "initArgparser" /\ exitCode = 1
                /\ printed = SelectSeq(GivenQueries, NotOneAt)
                /\ NothingStarted
          /\ SelectSeq(GivenQueries, NotOneAt) = <<>> =>
                /\ printed = <<>>
                /\ ~env.deprecatedEnv => exitAt # "initArgparser"
    /\ printed # <<>> => (pc = "exited" /\ ReachedQueryCheck)
    /\ ~NotOneAt(UuidPair)

\* C5 witness: of two filters the one with two '@' got its message, the
\* well-formed one did not, and the process exited with status 1
C5_Witness ==
    /\ pc = "exited" /\ exitCode = 1
    /\ GivenQueries = << UuidPair, <<"U", "@", "U", "@", "U">> >>
    /\ printed = << <<"U", "@", "U", "@", "U">> >>
    /\ NothingStarted

\* C9: initAzureDevOpsConnection selects one auth mode, once: the static token
\* if and only if the resolved access token (the token file's content, when a
\* file is named, in place of the given token) is not empty, else the service
\* principal; with a token UseAzAuth is never called, and the mode never
\* changes afterwards.
C9_OneAuthModeChosenOnce ==
    /\ [](/\ ~client.created => (client.authMode = "none" /\ client.azAuthCalls = 0)
          /\ client.created =>
                /\ client.authMode \in {"token", "azauth"}
                /\ client.authMode = "token" <=> ResolvedToken # EmptyStr
                /\ client.authMode = "token" =>
                      (client.azAuthCalls = 0 /\ client.accessToken = ResolvedToken)
                /\ client.authMode = "azauth" =>
                      (client.azAuthCalls = 1 /\ client.accessToken = EmptyStr))
    /\ [][client.authMode # "none" =>
              (client'.authMode = client.authMode
                 /\ client'.azAuthCalls = client.azAuthCalls)]_vars

\* C9 witness: a token, a token file and the service-principal credentials
\* were all given; the file's token replaced the given one, the token mode was
\* taken and the server runs
C9_Witness ==
    /\ pc = "serving"
    /\ client.authMode = "token" /\ client.azAuthCalls = 0
    /\ HasAccessTokenFile(args)
    /\ args.AzureDevops.AccessToken # EmptyStr
    /\ client.accessToken # args.AzureDevops.AccessToken
    /\ args.Azure.TenantId # EmptyStr
    /\ args.Azure.ClientId # EmptyStr
    /\ args.Azure.ClientSecret # EmptyStr

====
